---- MODULE Spec2Model ----
(***************************************************************************)
(* Model of the Notion email sender (src/run.js): one scheduled run lists  *)
(* the pending rows of the Notion database, then validates, renders, sends *)
(* and writes back each row in turn.                                       *)
(*                                                                         *)
(* Text values (validation status, error messages, addresses) are          *)
(* sequences of string fragments, so that concatenation in the code        *)
(* (template literals) is concatenation of sequences here.  An address is  *)
(* a sequence of one-character fragments.                                  *)
(*                                                                         *)
(* Spec is the whole pipeline over a small database.  SpecValidate,        *)
(* SpecRender, SpecSubst and SpecUpdate run single steps of processRow     *)
(* (the validator, the renderer, the placeholder substitution, the         *)
(* write-backs of the send step) from every input of a bounded set.        *)
(* SpecOverlap runs two invocations of the script as two processes that    *)
(* share the database.                                                     *)
(***************************************************************************)
EXTENDS Integers, Sequences, FiniteSets, TLC

\* ------------------------------------------------------------------ bounds
NumRows  == 3     \* rows held by the database
PageSize == 2     \* rows one databases.query response holds (100 at Notion)
MaxRuns  == 2     \* scheduled invocations modelled
MaxClock == 2     \* last instant of the clock (seconds)
MaxAddrLen == 5   \* longest address given to the validator
MaxBlocks == 5    \* most content blocks of a template given to the renderer
MaxTextLen == 2   \* most fragments of a template text given to the substitution

\* ------------------------------------------------------- program constants
Margin == 60      \* run.js:91  (data.expires_in - 60)

Rows == 1..NumRows

Required == {"NOTION_API_KEY", "NOTION_DATABASE_ID", "AZURE_CLIENT_ID", "OUTLOOK_REFRESH_TOKEN"}

\* Non-ASCII characters of the source are written in ASCII: the em dash of
\* "Error -- Retrying" as "--", the cross mark as "[x] ", the check mark as "[v] ".
RetrySentinel == "Error -- Retrying"
SendStatuses  == {"", "Sending...", "Sent", "Failed", RetrySentinel}

\* Addresses a row may hold: none, one without a dot in the domain, a good one.
Emails == { <<>>, <<"a", "@", "b">>, <<"a", "@", "b", ".", "c">> }
\* Template relation of a row: "" models a missing relation (null).
Templates == {"", "tpl"}

\* Lifetimes (seconds) the identity provider may report.
ExpiresIns == {Margin - 1, Margin, Margin + 1, Margin + 2}

NotionError   == <<"notion: request failed">>
TemplateError == <<"Could not find block">>
GraphError    == <<"Graph API: ", "HTTP 500">>
\* data.error_description || data.error || "Token refresh failed"  (run.js:88)
TokenFailures == { [error_description |-> <<"AADSTS70000">>, error |-> <<"invalid_grant">>],
                   [error_description |-> <<>>, error |-> <<>>] }

VARIABLES
  store,          \* the Notion database: row id -> properties the pipeline writes
  now,            \* the clock (Date.now(), in seconds)
  runs,           \* invocations started so far
  env,            \* the secrets present in process.env of the current run
  pc,             \* position of the running process
  rows,           \* main: rows (ids of the pages returned by getPendingRows)
  i,              \* main: loop index (1-based)
  sentCount,      \* run.js:44
  failedCount,    \* run.js:45
  cachedToken,    \* run.js:59   (0 models null; tokens are 1, 2, ...)
  tokenExpiresAt, \* run.js:60
  email,          \* processRow: email
  templatePageId, \* processRow: templatePageId
  validation,     \* processRow: validation
  err,            \* the error caught by processRow's catch (err.message), <<>> if none
  token,          \* sendEmailViaGraph: token
  exitCode,       \* -1 while running, else the code given to process.exit
  exitReason,     \* history: which exit was taken
  eligibleAtList, \* history: rows matching the filter when the listing was made
  effects,        \* history: kinds of external requests made by this run
  nDone,          \* history: processRow calls that returned in this run
  nDelivered,     \* history: send requests the mail API accepted in this run
  exchanges,      \* history: token exchanges made in this run
  staleCalls,     \* history: getGraphToken calls made with an empty or expired cache
  rendered,       \* history, current row: "none", "ok" or "failed" (getTemplate)
  delivered,      \* history, current row: the mail API accepted its send request
  outcome,        \* history, current row: "none", "sent" or "failed" (the counter bumped)
  refreshToken,   \* process.env.OUTLOOK_REFRESH_TOKEN ("" if unset)
  issued,         \* getGraphToken: data.refresh_token of the last response ("" if none)
  notice,         \* the rotation notice the last exchange logged, <<>> if none
  refreshUsed,    \* history: the refresh token the last exchange of this run sent
  trueExpiry,     \* history: the instant the cached token expires at the provider
  exchangeFailed, \* history: the last getGraphToken call met a failed exchange
  mxResult,       \* history, current row: what dns.resolveMx did ("none" if not called)
  delays,         \* history: inter-row delays awaited in this run
  blocks,         \* the template page in Notion: its content blocks
  title,          \* the template page in Notion: the text of its title
  name,           \* processRow: name
  tpl,            \* processRow: tpl (subject and html of the template)
  subject,        \* processRow: subject
  htmlBody,       \* processRow: htmlBody
  sends,          \* history, all runs: row id -> send requests made and accepted
  other           \* the locals of a second invocation while this one has the turn

vars == << store, now, runs, env, pc, rows, i, sentCount, failedCount, cachedToken,
           tokenExpiresAt, email, templatePageId, validation, err, token, exitCode,
           exitReason, eligibleAtList, effects, nDone, nDelivered, exchanges, staleCalls,
           rendered, delivered, outcome, refreshToken, issued, notice, refreshUsed,
           trueExpiry, exchangeFailed, mxResult, delays, blocks, title, name, tpl,
           subject, htmlBody, sends, other >>

mainVars  == << rows, i >>
cacheVars == << cachedToken, tokenExpiresAt >>
callVars  == << issued, notice >>
textVars  == << tpl, subject, htmlBody >>
rowVars   == << email, templatePageId, validation, err, token, rendered, delivered, outcome,
               callVars, mxResult, name, textVars >>
exitVars  == << exitCode, exitReason >>
tokenHist == << exchanges, staleCalls, refreshToken, refreshUsed, trueExpiry, exchangeFailed >>
runHist   == << eligibleAtList, delays >>
\* The template page: no run writes it.
pageVars  == << blocks, title >>

\* ------------------------------------------------------------ pure helpers

\* /^[^\s@]+@[^\s@]+\.[^\s@]+$/
Plain(c) == c \notin {" ", "@"}
isValidFormat(e) ==
  \E a \in 1..Len(e) : \E d \in 1..Len(e) :
     /\ e[a] = "@" /\ e[d] = "."
     /\ 1 < a /\ a + 1 < d /\ d < Len(e)
     /\ \A k \in 1..(a - 1) : Plain(e[k])
     /\ \A k \in (a + 1)..(d - 1) : Plain(e[k])
     /\ \A k \in (d + 1)..Len(e) : Plain(e[k])

\* email.split("@")[1]
Domain(e) ==
  LET a  == CHOOSE k \in 1..Len(e) : e[k] = "@" /\ \A j \in 1..(k - 1) : e[j] # "@"
      zs == {k \in (a + 1)..Len(e) : e[k] = "@"}
      z  == IF zs = {} THEN Len(e) + 1 ELSE CHOOSE k \in zs : \A j \in zs : k <= j
  IN  SubSeq(e, a + 1, z - 1)

\* Mutant of validateEmail: an empty list of records passes.
validateEmailAnyAnswer(e, mx) ==
  IF ~isValidFormat(e)
  THEN [valid |-> FALSE, reason |-> <<"Invalid email format">>]
  ELSE IF mx = "error"
  THEN [valid |-> FALSE, reason |-> <<"No mail server found for ">> \o Domain(e)]
  ELSE [valid |-> TRUE, reason |-> <<>>]

\* validateEmail, given what dns.resolveMx does for the domain:
\* "ok" (records), "empty" (no records) or "error" (it throws).
validateEmail(e, mx) ==
  IF ~isValidFormat(e)
  THEN [valid |-> FALSE, reason |-> <<"Invalid email format">>]
  ELSE IF mx # "ok"
  THEN [valid |-> FALSE, reason |-> <<"No mail server found for ">> \o Domain(e)]
  ELSE [valid |-> TRUE, reason |-> <<>>]

\* Mutant of MxLookup: the resolver is asked before the format is looked at.
MxLookupAlways(e) == {"mx"}

\* validateEmail reaches dns.resolveMx only past the format check.
MxLookup(e) == IF isValidFormat(e) THEN {"mx"} ELSE {}

\* Mutant of Pending: a row in the intermediate status is selected as well.
PendingOrSending(r) ==
  r.send = TRUE /\ (r.sendStatus = "" \/ r.sendStatus = RetrySentinel \/ r.sendStatus = "Sending...")

\* The filter of getPendingRows.
Pending(r) == r.send = TRUE /\ (r.sendStatus = "" \/ r.sendStatus = RetrySentinel)

\* The pages matching the filter, in database order, as a sequence of ids.
RECURSIVE Matching(_, _)
Matching(st, k) ==
  IF k > NumRows THEN <<>>
  ELSE (IF Pending(st[k]) THEN <<k>> ELSE <<>>) \o Matching(st, k + 1)

\* response.results of one databases.query call: the first page only.
getPendingRows(st) ==
  LET all == Matching(st, 1)
  IN  IF Len(all) <= PageSize THEN all ELSE SubSeq(all, 1, PageSize)

\* Mutant of TokenErrorMessage: the error code comes before the description.
TokenErrorCode(f) ==
  IF f.error # <<>> THEN f.error
  ELSE IF f.error_description # <<>> THEN f.error_description
  ELSE <<"Token refresh failed">>

\* throw new Error(data.error_description || data.error || "Token refresh failed")
TokenErrorMessage(f) ==
  IF f.error_description # <<>> THEN f.error_description
  ELSE IF f.error # <<>> THEN f.error
  ELSE <<"Token refresh failed">>

\* Mutant of updateRow: the properties not supplied are cleared.
updateRowWhole(st, pageId, updates) ==
  LET blank == [send |-> FALSE, sendStatus |-> "", validationStatus |-> <<>>, sentAt |-> <<>>]
  IN  [st EXCEPT ![pageId] =
         [f \in DOMAIN st[pageId] |-> IF f \in DOMAIN updates THEN updates[f] ELSE blank[f]]]

\* updateRow: only the supplied properties are written.
updateRow(st, pageId, updates) ==
  [st EXCEPT ![pageId] =
     [f \in DOMAIN st[pageId] |-> IF f \in DOMAIN updates THEN updates[f] ELSE st[pageId][f]]]

\* Mutant of MissingField: the template reference is looked at first.
MissingFieldTemplateFirst(e, t) ==
  IF t = "" THEN <<"No template linked">>
  ELSE IF e = <<>> THEN <<"No email address">>
  ELSE <<>>

\* processRow, lines 328-340: the status of a row that lacks a field, <<>> if
\* it lacks none.
MissingField(e, t) ==
  IF e = <<>> THEN <<"No email address">>
  ELSE IF t = "" THEN <<"No template linked">>
  ELSE <<>>

\* processRow, line 345: the status written for a validation failure.
ValidationFailedStatus(reason) == <<"[x] ">> \o reason

\* Mutant of FailedUpdate: the send-intent flag is left as it is.
FailedUpdateKeepsFlag(vs) == [validationStatus |-> vs, sendStatus |-> "Failed"]

\* The payload of every terminal failure write.
FailedUpdate(vs) == [validationStatus |-> vs, sendStatus |-> "Failed", send |-> FALSE]
\* Mutant of SendingUpdate: the intermediate status is not written.
SendingUpdateNoStatus == [validationStatus |-> <<"[v] ", "Passed">>]

\* The intermediate write before sending (line 362).
SendingUpdate == [validationStatus |-> <<"[v] ", "Passed">>, sendStatus |-> "Sending..."]
\* Mutant of SentUpdate: the timestamp is not written.
SentUpdateNoStamp(t) == [sendStatus |-> "Sent", send |-> FALSE]

\* The final write of a sent row (line 367); t is new Date().
SentUpdate(t) == [sendStatus |-> "Sent", sentAt |-> <<t>>, send |-> FALSE]

\* Mutant of MissingSecrets: the refresh token is not among the required.
MissingSecretsNoToken(e) == (Required \ {"OUTLOOK_REFRESH_TOKEN"}) \ e

\* main: required.filter((k) => !process.env[k])
MissingSecrets(e) == Required \ e

\* The value of the OUTLOOK_REFRESH_TOKEN secret, and what the identity
\* provider may put in data.refresh_token: nothing, the same token, a new one.
SuppliedRefreshToken == "rt0"
RefreshTokensIssued  == {"", SuppliedRefreshToken, "rt1"}

\* getGraphToken, lines 95-99: the rotation notice logged for a response
\* carrying refresh token r when rt was sent; <<>> when nothing is logged.
RotationNotice(rt, r) ==
  IF r # "" /\ r # rt THEN <<"Refresh token was rotated: ", r>> ELSE <<>>

\* Mutant of RefreshTokenAfter: a rotated refresh token replaces the one in use.
RefreshTokenRotated(rt, r) == IF r # "" THEN r ELSE rt

\* getGraphToken, lines 66 and 95-99: the refresh token of the process after
\* an exchange; the response's token is logged and nothing is assigned.
RefreshTokenAfter(rt, r) == rt

\* Mutant of ExpiresAt: no safety margin.
ExpiresAtNoMargin(t, x) == t + x

\* getGraphToken, line 91: tokenExpiresAt for a lifetime x reported at t.
ExpiresAt(t, x) == t + (x - Margin)

\* Mutant of DelayAwaited: the delay is awaited after the last row too.
DelayAlways(k, n) == 1

\* main, line 410: 1 if the delay is awaited after the k-th of n rows, else 0.
DelayAwaited(k, n) == IF k < n THEN 1 ELSE 0

\* Mutant of CacheValid: the cached token is used at its expiry instant too.
CacheValidAtExpiry == cachedToken # 0 /\ now <= tokenExpiresAt

\* getGraphToken: the cached token is still usable.
CacheValid == cachedToken # 0 /\ now < tokenExpiresAt

\* ---------------------------------------------------------------- renderer
\* A block is a record: type, rich_text (its runs: a sequence of fragments of
\* plain text, none annotated) and url (of an image block; "" if it has none).
\* The HTML is the sequence of the lines that blocksToHtml joins, and a line
\* is a sequence of fragments: the opening tag, the content, the closing tag.

\* richTextToHtml for runs without annotations: the escapes of lines 166-169.
Escape(t) ==
  CASE t = "&"  -> "&amp;"
    [] t = "<"  -> "&lt;"
    [] t = ">"  -> "&gt;"
    [] t = "\n" -> "<br>"
    [] OTHER    -> t
richTextToHtml(rt) == [k \in 1..Len(rt) |-> Escape(rt[k])]

\* Mutant of ClosesUl: an item of the other list kind leaves the list open.
ClosesUlUnlessList(type) == type \notin {"bulleted_list_item", "numbered_list_item"}

\* blocksToHtml, line 196.
ClosesUl(type) == type # "bulleted_list_item"

\* Mutant of ClosesOl: only the block types of the switch close the list.
ClosesOlKnownType(type) ==
  type \in {"paragraph", "heading_1", "heading_2", "heading_3", "bulleted_list_item", "to_do",
            "quote", "code", "divider"}

\* blocksToHtml, line 197.
ClosesOl(type) == type # "numbered_list_item"

\* blocksToHtml, lines 199-241: the lines the switch pushes for a block, given
\* the two flags as they are after lines 196-197.
Markup(block, inUl, inOl) ==
  LET html == richTextToHtml(block.rich_text)
      Wrap(open, close) == << <<open>> \o html \o <<close>> >>
  IN  CASE block.type = "paragraph" ->
             IF html # <<>> THEN Wrap("<p>", "</p>") ELSE << <<"<p>", "&nbsp;", "</p>">> >>
        [] block.type = "heading_1" -> Wrap("<h1>", "</h1>")
        [] block.type = "heading_2" -> Wrap("<h2>", "</h2>")
        [] block.type = "heading_3" -> Wrap("<h3>", "</h3>")
        [] block.type = "bulleted_list_item" ->
             (IF inUl THEN <<>> ELSE << <<"<ul>">> >>) \o Wrap("<li>", "</li>")
        [] block.type = "numbered_list_item" ->
             (IF inOl THEN <<>> ELSE << <<"<ol>">> >>) \o Wrap("<li>", "</li>")
        [] block.type = "to_do" -> Wrap("<p>[ ] ", "</p>")     \* data.checked is unset
        [] block.type = "quote" -> Wrap("<blockquote>", "</blockquote>")
        [] block.type = "code"  -> Wrap("<pre><code>", "</code></pre>")
        [] block.type = "divider" -> << <<"<hr>">> >>
        [] block.type = "image" ->
             IF block.url # "" THEN << <<"<img src=", block.url, ">">> >> ELSE <<>>
        [] OTHER -> <<>>

\* The loop of blocksToHtml from block k on, and the two closes after it.
RECURSIVE Convert(_, _, _, _, _)
Convert(bs, k, lines, inUl, inOl) ==
  IF k > Len(bs)
  THEN lines \o (IF inUl THEN << <<"</ul>">> >> ELSE <<>>)
             \o (IF inOl THEN << <<"</ol>">> >> ELSE <<>>)
  ELSE LET type == bs[k].type
           l1 == IF ClosesUl(type) /\ inUl THEN lines \o << <<"</ul>">> >> ELSE lines
           u1 == IF ClosesUl(type) THEN FALSE ELSE inUl
           l2 == IF ClosesOl(type) /\ inOl THEN l1 \o << <<"</ol>">> >> ELSE l1
           o1 == IF ClosesOl(type) THEN FALSE ELSE inOl
       IN  Convert(bs, k + 1, l2 \o Markup(bs[k], u1, o1),
                   u1 \/ type = "bulleted_list_item", o1 \/ type = "numbered_list_item")

blocksToHtml(bs) == Convert(bs, 1, <<>>, FALSE, FALSE)

\* getTemplate: the subject is the title or "No subject"; the blocks are all
\* the children of the page, in order.
getTemplate(t, bs) ==
  [subject |-> IF t # <<>> THEN t ELSE <<"No subject">>, html |-> blocksToHtml(bs)]

\* The fragments /\{\{name\}\}/gi matches.  Fragments are chosen so that no
\* placeholder and no $ pattern lies across two of them.
Placeholders == {"{{name}}", "{{Name}}", "{{NAME}}"}

\* What String.prototype.replace inserts for a match m when the replacement is
\* the string n: "$$" stands for a dollar sign and "$&" for the matched text.
Substitution(n, m) ==
  LET F[k \in 0..Len(n)] ==
        IF k = 0 THEN <<>>
        ELSE F[k - 1] \o << (CASE n[k] = "$$" -> "$" [] n[k] = "$&" -> m [] OTHER -> n[k]) >>
  IN  F[Len(n)]

\* text.replace(/\{\{name\}\}/gi, n), lines 353-354.
replaceName(text, n) ==
  LET F[k \in 0..Len(text)] ==
        IF k = 0 THEN <<>>
        ELSE F[k - 1] \o (IF text[k] \in Placeholders THEN Substitution(n, text[k])
                          ELSE <<text[k]>>)
  IN  F[Len(text)]

\* processRow, line 324: getProp(...) || "there".
NameOrThere(n) == IF n # <<>> THEN n ELSE <<"there">>

\* The names the rows of a run hold.
StoredNames == { <<"Ann">> }

Block(type, text, url) == [type |-> type, rich_text |-> text, url |-> url]

\* The template of the README: a greeting, a list, a closing paragraph.
SampleTitle  == <<"Welcome, ", "{{name}}">>
SampleBlocks == << Block("paragraph", <<"Hi ", "{{Name}}", ",">>, ""),
                   Block("bulleted_list_item", <<"one">>, ""),
                   Block("bulleted_list_item", <<"two">>, ""),
                   Block("paragraph", <<"Bye">>, "") >>

\* ------------------------------------------------------------------ state

NoValidation == [valid |-> TRUE, reason |-> <<>>]
NoTemplate   == [subject |-> <<>>, html |-> <<>>]

RowInit == [send : BOOLEAN, sendStatus : SendStatuses, validationStatus : {<<>>}, sentAt : {<<>>}]

\* The usual rows of a database: queued, queued for a retry, or not queued.
\* Every other combination of flag and status (a checked row that is Sent, an
\* unchecked row in the retry status, ...) is held by at most one row of an
\* initial database, at any position.
UsualRow(r) ==
  \/ r.send /\ r.sendStatus \in {"", RetrySentinel}
  \/ ~r.send /\ r.sendStatus = ""

\* The locals of processRow before a row is taken up.
ClearRow ==
  /\ email' = <<>> /\ templatePageId' = "" /\ validation' = NoValidation
  /\ err' = <<>> /\ token' = 0
  /\ rendered' = "none" /\ delivered' = FALSE /\ outcome' = "none"
  /\ issued' = "" /\ notice' = <<>> /\ mxResult' = "none"
  /\ name' = <<>> /\ tpl' = NoTemplate /\ subject' = <<>> /\ htmlBody' = <<>>

\* No run has started: the process globals and the history of a run.
Idle ==
  /\ now = 0 /\ runs = 0 /\ env = Required /\ pc = "idle"
  /\ rows = <<>> /\ i = 0
  /\ sentCount = 0 /\ failedCount = 0
  /\ cachedToken = 0 /\ tokenExpiresAt = 0
  /\ email = <<>> /\ templatePageId = "" /\ validation = NoValidation
  /\ err = <<>> /\ token = 0
  /\ exitCode = -1 /\ exitReason = "none"
  /\ eligibleAtList = {} /\ effects = {}
  /\ nDone = 0 /\ nDelivered = 0 /\ exchanges = 0 /\ staleCalls = 0
  /\ rendered = "none" /\ delivered = FALSE /\ outcome = "none"
  /\ refreshToken = "" /\ issued = "" /\ notice = <<>> /\ refreshUsed = ""
  /\ trueExpiry = 0 /\ exchangeFailed = FALSE /\ mxResult = "none" /\ delays = 0
  /\ name = <<>> /\ tpl = NoTemplate /\ subject = <<>> /\ htmlBody = <<>>

\* No send request has been made for any row.
NoSends == [r \in Rows |-> [requests |-> 0, accepted |-> 0]]

\* The locals of an invocation that has not started (the values of Idle).
NotStarted ==
  [env |-> Required, pc |-> "idle", rows |-> <<>>, i |-> 0,
   sentCount |-> 0, failedCount |-> 0, cachedToken |-> 0, tokenExpiresAt |-> 0,
   email |-> <<>>, templatePageId |-> "", validation |-> NoValidation,
   err |-> <<>>, token |-> 0, exitCode |-> -1, exitReason |-> "none",
   eligibleAtList |-> {}, effects |-> {},
   nDone |-> 0, nDelivered |-> 0, exchanges |-> 0, staleCalls |-> 0,
   rendered |-> "none", delivered |-> FALSE, outcome |-> "none",
   refreshToken |-> "", issued |-> "", notice |-> <<>>, refreshUsed |-> "",
   trueExpiry |-> 0, exchangeFailed |-> FALSE, mxResult |-> "none", delays |-> 0,
   name |-> <<>>, tpl |-> NoTemplate, subject |-> <<>>, htmlBody |-> <<>>]

Init ==
  /\ store \in [Rows -> RowInit]
  /\ Cardinality({r \in Rows : ~UsualRow(store[r])}) <= 1
  /\ Idle
  /\ blocks = SampleBlocks /\ title = SampleTitle
  /\ sends = NoSends /\ other = NotStarted

\* process.exit(code)
Exit(code, reason) ==
  /\ pc' = "exit" /\ exitCode' = code /\ exitReason' = reason

\* await updateRow(pageId, {validationStatus: vs, sendStatus: "Failed", send: false});
\* failedCount++; return;      The write may throw: nothing in processRow or main
\* catches it, so it reaches main().catch.  fx: the requests made before it.
FailRow(vs, fx) ==
  /\ effects' = effects \cup fx \cup {"update"}
  /\ \E ok \in BOOLEAN :
       IF ok
       THEN /\ store' = updateRow(store, rows[i], FailedUpdate(vs))
            /\ failedCount' = failedCount + 1
            /\ nDone' = nDone + 1
            /\ outcome' = "failed"
            /\ pc' = "next"
       ELSE /\ pc' = "fatal"
            /\ UNCHANGED << store, failedCount, nDone, outcome >>

\* ---------------------------------------------------------------- actions

\* A scheduled invocation starts: module initialisation and main up to the
\* first await (the check of the required environment variables).
Main ==
  /\ pc \in {"idle", "exit"} /\ runs < MaxRuns
  /\ runs' = runs + 1
  /\ \E t \in now..MaxClock : now' = t
  /\ sentCount' = 0 /\ failedCount' = 0 /\ cachedToken' = 0 /\ tokenExpiresAt' = 0
  /\ rows' = <<>> /\ i' = 0
  /\ ClearRow
  /\ eligibleAtList' = {} /\ effects' = {}
  /\ nDone' = 0 /\ nDelivered' = 0 /\ exchanges' = 0 /\ staleCalls' = 0
  /\ refreshUsed' = "" /\ trueExpiry' = 0 /\ exchangeFailed' = FALSE /\ delays' = 0
  /\ \E e \in SUBSET Required :
       /\ env' = e
       /\ refreshToken' = (IF "OUTLOOK_REFRESH_TOKEN" \in e THEN SuppliedRefreshToken ELSE "")
       /\ IF MissingSecrets(e) # {}
          THEN Exit(1, "missing")
          ELSE pc' = "list" /\ exitCode' = -1 /\ exitReason' = "none"
  /\ UNCHANGED << store, pageVars, other, sends >>

\* rows = await getPendingRows(), the catch around it and the empty check.
ListRows ==
  /\ pc = "list"
  /\ \E ok \in BOOLEAN :
       IF ~ok
       THEN /\ Exit(1, "listfail")
            /\ UNCHANGED << rows, i, eligibleAtList >>
       ELSE /\ rows' = getPendingRows(store)
            /\ eligibleAtList' = {r \in Rows : store[r].send /\ store[r].sendStatus \in {"", RetrySentinel}}
            /\ IF rows' = <<>>
               THEN Exit(0, "norows") /\ i' = 0
               ELSE pc' = "row" /\ i' = 1 /\ UNCHANGED exitVars
  /\ UNCHANGED << store, now, runs, env, pageVars, other, sends, sentCount, failedCount, cacheVars, rowVars,
                  effects, nDone, nDelivered, tokenHist, delays >>

\* processRow, lines 322-340: read the properties, the two missing-field exits.
ProcessRowStart ==
  /\ pc = "row"
  /\ \E e \in Emails : \E t \in Templates : \E n \in StoredNames :
       /\ email' = e /\ templatePageId' = t /\ name' = NameOrThere(n)
       /\ IF MissingField(e, t) # <<>>
          THEN FailRow(MissingField(e, t), {})
          ELSE /\ pc' = "validate"
               /\ UNCHANGED << store, failedCount, nDone, outcome, effects >>
  /\ UNCHANGED << now, runs, env, pageVars, other, sends, mainVars, sentCount, cacheVars, validation, err, token,
                  rendered, delivered, callVars, mxResult, textVars, exitVars, nDelivered,
                  tokenHist, runHist >>

\* processRow, lines 342-348.
ValidateEmail ==
  /\ pc = "validate"
  /\ \E mx \in {"ok", "empty", "error"} :
       LET v == validateEmail(email, mx) IN
       /\ validation' = v
       /\ mxResult' = (IF MxLookup(email) = {} THEN "none" ELSE mx)
       /\ IF ~v.valid
          THEN FailRow(ValidationFailedStatus(v.reason), MxLookup(email))
          ELSE /\ pc' = "template"
               /\ effects' = effects \cup MxLookup(email)
               /\ UNCHANGED << store, failedCount, nDone, outcome >>
  /\ UNCHANGED << now, runs, env, pageVars, other, sends, mainVars, sentCount, cacheVars, email, templatePageId, err,
                  token, rendered, delivered, callVars, name, textVars, exitVars, nDelivered,
                  tokenHist, runHist >>

\* processRow, lines 350-360: getTemplate and its catch.
GetTemplate ==
  /\ pc = "template"
  /\ \E ok \in BOOLEAN :
       IF ok
       THEN /\ rendered' = "ok"
            /\ tpl' = getTemplate(title, blocks)
            /\ subject' = replaceName(tpl'.subject, name)
            /\ htmlBody' = [k \in 1..Len(tpl'.html) |-> replaceName(tpl'.html[k], name)]
            /\ pc' = "sending"
            /\ effects' = effects \cup {"template"}
            /\ UNCHANGED << store, failedCount, nDone, outcome, err >>
       ELSE /\ rendered' = "failed"
            /\ err' = TemplateError
            /\ FailRow(<<"Template error: ">> \o TemplateError, {"template"})
            /\ UNCHANGED textVars
  /\ UNCHANGED << now, runs, env, pageVars, other, sends, mainVars, sentCount, cacheVars, email, templatePageId,
                  validation, token, delivered, callVars, mxResult, name, exitVars,
                  nDelivered, tokenHist, runHist >>

\* processRow, line 362: the intermediate write, outside any try.
MarkSending ==
  /\ pc = "sending"
  /\ effects' = effects \cup {"update"}
  /\ \E ok \in BOOLEAN :
       IF ok
       THEN store' = updateRow(store, rows[i], SendingUpdate) /\ pc' = "token"
       ELSE store' = store /\ pc' = "fatal"
  /\ UNCHANGED << now, runs, env, pageVars, other, sends, mainVars, sentCount, failedCount, cacheVars, rowVars,
                  exitVars, nDone, nDelivered, tokenHist, runHist >>

\* getGraphToken, called at line 109 inside processRow's try.
GetGraphToken ==
  /\ pc = "token"
  /\ staleCalls' = (IF cachedToken = 0 \/ now >= tokenExpiresAt
                    THEN staleCalls + 1 ELSE staleCalls)
  /\ IF CacheValid
     THEN /\ token' = cachedToken
          /\ pc' = "request"
          /\ exchangeFailed' = FALSE
          /\ UNCHANGED << cacheVars, err, effects, exchanges, callVars, refreshToken,
                          refreshUsed, trueExpiry >>
     ELSE IF refreshToken = ""
     THEN /\ err' = <<"OUTLOOK_REFRESH_TOKEN is not set.">>
          /\ pc' = "catch"
          /\ UNCHANGED << cacheVars, token, effects, exchanges, callVars, refreshToken,
                          refreshUsed, trueExpiry, exchangeFailed >>
     ELSE /\ exchanges' = exchanges + 1
          /\ effects' = effects \cup {"exchange"}
          /\ refreshUsed' = refreshToken
          /\ \/ \E x \in ExpiresIns : \E r \in RefreshTokensIssued :
                  /\ cachedToken' = exchanges + 1
                  /\ tokenExpiresAt' = ExpiresAt(now, x)
                  /\ trueExpiry' = now + x
                  /\ issued' = r
                  /\ notice' = RotationNotice(refreshToken, r)
                  /\ refreshToken' = RefreshTokenAfter(refreshToken, r)
                  /\ token' = exchanges + 1
                  /\ pc' = "request"
                  /\ exchangeFailed' = FALSE
                  /\ err' = err
             \/ \E f \in TokenFailures :
                  /\ err' = TokenErrorMessage(f)
                  /\ pc' = "catch"
                  /\ exchangeFailed' = TRUE
                  /\ UNCHANGED << cacheVars, token, callVars, refreshToken, trueExpiry >>
  /\ UNCHANGED << store, now, runs, env, pageVars, other, sends, mainVars, sentCount, failedCount, email,
                  templatePageId, validation, rendered, delivered, outcome, mxResult, name,
                  textVars, exitVars, nDone, nDelivered, runHist >>

\* sendEmailViaGraph, lines 111-130: the send request.
SendMail ==
  /\ pc = "request"
  /\ effects' = effects \cup {"send"}
  /\ \E ok \in BOOLEAN :
       IF ok
       THEN /\ delivered' = TRUE /\ nDelivered' = nDelivered + 1
            /\ pc' = "sent" /\ err' = err
       ELSE /\ err' = GraphError /\ pc' = "catch"
            /\ UNCHANGED << delivered, nDelivered >>
  /\ sends' = [sends EXCEPT ![rows[i]] =
                 [requests |-> @.requests + 1,
                  accepted |-> @.accepted + (IF pc' = "sent" THEN 1 ELSE 0)]]
  /\ UNCHANGED << store, now, runs, env, pageVars, other, mainVars, sentCount, failedCount, cacheVars, email,
                  templatePageId, validation, token, rendered, outcome, callVars, mxResult,
                  name, textVars, exitVars, nDone, tokenHist, runHist >>

\* processRow, lines 366-368: the final write of a sent row, inside the try.
MarkSent ==
  /\ pc = "sent"
  /\ effects' = effects \cup {"update"}
  /\ \E ok \in BOOLEAN :
       IF ok
       THEN /\ store' = updateRow(store, rows[i], SentUpdate(now))
            /\ sentCount' = sentCount + 1
            /\ nDone' = nDone + 1
            /\ outcome' = "sent"
            /\ pc' = "next" /\ err' = err
       ELSE /\ err' = NotionError /\ pc' = "catch"
            /\ UNCHANGED << store, sentCount, nDone, outcome >>
  /\ UNCHANGED << now, runs, env, pageVars, other, sends, mainVars, failedCount, cacheVars, email, templatePageId,
                  validation, token, rendered, delivered, callVars, mxResult, name, textVars,
                  exitVars, nDelivered, tokenHist, runHist >>

\* processRow, lines 369-373: the catch of the send step.
CatchSend ==
  /\ pc = "catch"
  /\ FailRow(<<"Send error: ">> \o err, {})
  /\ UNCHANGED << now, runs, env, pageVars, other, sends, mainVars, sentCount, cacheVars, email, templatePageId,
                  validation, err, token, rendered, delivered, callVars, mxResult, name,
                  textVars, exitVars, nDelivered, tokenHist, runHist >>

\* main, lines 406-413: a row returned and it is not the last one; the delay
\* is awaited (the clock moves by Tick) and the loop takes the next row.
Delay ==
  /\ pc = "next" /\ i < Len(rows)
  /\ i' = i + 1 /\ pc' = "row"
  /\ delays' = delays + DelayAwaited(i, Len(rows))
  /\ ClearRow
  /\ UNCHANGED << store, now, runs, env, pageVars, other, sends, rows, sentCount, failedCount, cacheVars,
                  exitVars, effects, nDone, nDelivered, tokenHist, eligibleAtList >>

\* main, lines 415-422: the last row returned; summary and exit status.
Summary ==
  /\ pc = "next" /\ i = Len(rows)
  /\ Exit(IF failedCount > 0 THEN 1 ELSE 0, "summary")
  /\ delays' = delays + DelayAwaited(i, Len(rows))
  /\ ClearRow
  /\ UNCHANGED << store, now, runs, env, pageVars, other, sends, mainVars, sentCount, failedCount, cacheVars,
                  effects, nDone, nDelivered, tokenHist, eligibleAtList >>

\* main().catch, lines 424-427: an error no one caught.
FatalCatch ==
  /\ pc = "fatal"
  /\ Exit(1, "fatal")
  /\ ClearRow
  /\ UNCHANGED << store, now, runs, env, pageVars, other, sends, mainVars, sentCount, failedCount, cacheVars,
                  effects, nDone, nDelivered, tokenHist, runHist >>

\* Time passes while the process awaits.
Tick ==
  /\ pc \notin {"idle", "exit"} /\ now < MaxClock
  /\ now' = now + 1
  /\ UNCHANGED << store, runs, env, pageVars, other, sends, pc, mainVars, sentCount, failedCount, cacheVars, rowVars,
                  exitVars, effects, nDone, nDelivered, tokenHist, runHist >>

Next ==
  \/ Main \/ ListRows \/ ProcessRowStart \/ ValidateEmail \/ GetTemplate \/ MarkSending
  \/ GetGraphToken \/ SendMail \/ MarkSent \/ CatchSend \/ Delay \/ Summary \/ FatalCatch
  \/ Tick

Spec == Init /\ [][Next]_vars

\* A database of rows queued for the first time.
QueuedStore ==
  [r \in Rows |-> [send |-> TRUE, sendStatus |-> "", validationStatus |-> <<>>, sentAt |-> <<>>]]

\* ------------------------------------------------- overlapping invocations

\* The scheduler starts an invocation every five minutes whether or not the
\* previous one has exited (README.md:3); nothing in run.js takes a lock.  Two
\* invocations are two processes: each has its own module state and locals,
\* and they share the database, the template page and the clock.  The
\* variables of the module hold the process that has the turn, `other` holds
\* the one that waits at an await.

\* The module state and locals of the process that has the turn.
Locals ==
  [env |-> env, pc |-> pc, rows |-> rows, i |-> i, sentCount |-> sentCount,
   failedCount |-> failedCount, cachedToken |-> cachedToken,
   tokenExpiresAt |-> tokenExpiresAt, email |-> email, templatePageId |-> templatePageId,
   validation |-> validation, err |-> err, token |-> token, exitCode |-> exitCode,
   exitReason |-> exitReason, eligibleAtList |-> eligibleAtList, effects |-> effects,
   nDone |-> nDone, nDelivered |-> nDelivered, exchanges |-> exchanges,
   staleCalls |-> staleCalls, rendered |-> rendered, delivered |-> delivered,
   outcome |-> outcome, refreshToken |-> refreshToken, issued |-> issued, notice |-> notice,
   refreshUsed |-> refreshUsed, trueExpiry |-> trueExpiry, exchangeFailed |-> exchangeFailed,
   mxResult |-> mxResult, delays |-> delays, name |-> name, tpl |-> tpl, subject |-> subject,
   htmlBody |-> htmlBody]

\* The turn passes to the other process while this one awaits.  Of the awaits
\* of a process three are taken as turning points: the one before a row is
\* taken up (after the listing, or the delay between two rows), the one
\* between the intermediate write and the send, and the exit.  The other
\* process must have a step to take: it is under way, or it can still start.
Switch ==
  /\ pc \in {"row", "token", "exit"}
  /\ other.pc \notin {"idle", "exit"} \/ runs < MaxRuns
  /\ other' = Locals
  /\ env' = other.env /\ pc' = other.pc /\ rows' = other.rows /\ i' = other.i
  /\ sentCount' = other.sentCount /\ failedCount' = other.failedCount
  /\ cachedToken' = other.cachedToken /\ tokenExpiresAt' = other.tokenExpiresAt
  /\ email' = other.email /\ templatePageId' = other.templatePageId
  /\ validation' = other.validation /\ err' = other.err /\ token' = other.token
  /\ exitCode' = other.exitCode /\ exitReason' = other.exitReason
  /\ eligibleAtList' = other.eligibleAtList /\ effects' = other.effects
  /\ nDone' = other.nDone /\ nDelivered' = other.nDelivered /\ exchanges' = other.exchanges
  /\ staleCalls' = other.staleCalls /\ rendered' = other.rendered
  /\ delivered' = other.delivered /\ outcome' = other.outcome
  /\ refreshToken' = other.refreshToken /\ issued' = other.issued /\ notice' = other.notice
  /\ refreshUsed' = other.refreshUsed /\ trueExpiry' = other.trueExpiry
  /\ exchangeFailed' = other.exchangeFailed /\ mxResult' = other.mxResult
  /\ delays' = other.delays /\ name' = other.name /\ tpl' = other.tpl
  /\ subject' = other.subject /\ htmlBody' = other.htmlBody
  /\ UNCHANGED << store, now, runs, pageVars, sends >>

\* No run has started; every row is queued for the first time.
InitOverlap ==
  /\ store = QueuedStore
  /\ Idle
  /\ blocks = SampleBlocks /\ title = SampleTitle
  /\ sends = NoSends /\ other = NotStarted

\* The steps of either invocation, with every secret set.
NextOverlap ==
  \/ (Main /\ env' = Required /\ now' = now)
  \/ ListRows \/ ProcessRowStart \/ ValidateEmail \/ GetTemplate \/ MarkSending
  \/ GetGraphToken \/ SendMail \/ MarkSent \/ CatchSend \/ Delay \/ Summary \/ FatalCatch
  \/ Switch

SpecOverlap == InitOverlap /\ [][NextOverlap]_vars

\* ------------------------------------------- function-level specifications

\* The first run stands at position p of processRow for the only row it
\* listed, row 1, and has called neither the mail API nor the token endpoint.
AtRow(p) ==
  /\ now = 0 /\ runs = 1 /\ env = Required /\ pc = p
  /\ rows = <<1>> /\ i = 1
  /\ sentCount = 0 /\ failedCount = 0
  /\ cachedToken = 0 /\ tokenExpiresAt = 0
  /\ err = <<>> /\ token = 0
  /\ exitCode = -1 /\ exitReason = "none"
  /\ eligibleAtList = {1}
  /\ nDone = 0 /\ nDelivered = 0 /\ exchanges = 0 /\ staleCalls = 0
  /\ delivered = FALSE /\ outcome = "none"
  /\ refreshToken = SuppliedRefreshToken /\ issued = "" /\ notice = <<>>
  /\ refreshUsed = "" /\ trueExpiry = 0 /\ exchangeFailed = FALSE
  /\ delays = 0
  /\ sends = NoSends /\ other = NotStarted

\* The validator: every address of up to MaxAddrLen characters over a letter,
\* the at sign, the dot and the space, held by a row that reached line 342.
AddrChars == {"a", "@", ".", " "}
Addresses(max) == UNION {[1..n -> AddrChars] : n \in 1..max}

InitValidate ==
  /\ AtRow("validate") /\ store = QueuedStore
  /\ rendered = "none" /\ tpl = NoTemplate /\ subject = <<>> /\ htmlBody = <<>>
  /\ blocks = SampleBlocks /\ title = SampleTitle /\ name = <<"Ann">>
  /\ email \in Addresses(MaxAddrLen) /\ templatePageId = "tpl"
  /\ validation = NoValidation /\ mxResult = "none" /\ effects = {}

NextValidate == ValidateEmail

SpecValidate == InitValidate /\ [][NextValidate]_vars

\* A row that passed validation stands at line 351.
Validated(p) ==
  /\ AtRow(p) /\ store = QueuedStore
  /\ rendered = "none" /\ tpl = NoTemplate /\ subject = <<>> /\ htmlBody = <<>>
  /\ email = <<"a", "@", "b", ".", "c">> /\ templatePageId = "tpl"
  /\ validation = [valid |-> TRUE, reason |-> <<>>] /\ mxResult = "ok" /\ effects = {"mx"}

\* The renderer: every template of up to MaxBlocks blocks, each a paragraph,
\* a bulleted or numbered item, a block of a type the switch does not know,
\* or an image with or without a URL.  The text of a block is its position.
BlockKinds == { [type |-> "paragraph", url |-> ""],
                [type |-> "bulleted_list_item", url |-> ""],
                [type |-> "numbered_list_item", url |-> ""],
                [type |-> "table", url |-> ""],
                [type |-> "image", url |-> ""],
                [type |-> "image", url |-> "https://x/y.png"] }
BlocksOf(f, n) == [k \in 1..n |-> Block(f[k].type, <<ToString(k)>>, f[k].url)]

InitRender ==
  /\ Validated("template")
  /\ title = SampleTitle /\ name = <<"Ann">>
  /\ \E n \in 0..MaxBlocks : \E f \in [1..n -> BlockKinds] : blocks = BlocksOf(f, n)

NextRender == GetTemplate

SpecRender == InitRender /\ [][NextRender]_vars

\* The substitution: a template whose title and only paragraph are any text
\* of up to MaxTextLen fragments (or the greeting "Hi {{Name}}, {{name}}!"),
\* and a row whose name is absent, plain, or holds a dollar sign followed by
\* a dollar sign or an ampersand.
TextFragments == {"Hi ", "{{name}}", "{{Name}}"}
Texts(max) ==
  UNION { [1..n -> TextFragments] : n \in 0..max }
    \cup { <<"Hi ", "{{Name}}", ", ", "{{name}}", "!">> }
Names == { NameOrThere(n) : n \in { <<>>, <<"Ann">>, <<"Ca", "$$", "h">>, <<"A", "$&">> } }

InitSubst ==
  /\ Validated("template")
  /\ title \in Texts(MaxTextLen) /\ name \in Names
  /\ \E body \in Texts(MaxTextLen) : blocks = << Block("paragraph", body, "") >>

NextSubst == GetTemplate

SpecSubst == InitSubst /\ [][NextSubst]_vars

\* The write-backs of the send step: the rows of the database are queued for
\* the first time or for a retry, so they may hold the validation-status and
\* the timestamp of an earlier run; row 1 was validated and rendered and
\* stands at line 362.
QueuedRows ==
  [send : {TRUE}, sendStatus : {"", RetrySentinel},
   validationStatus : {<<>>, <<"Send error: ", "Graph API: ", "HTTP 500">>}, sentAt : {<<>>, <<0>>}]

InitUpdate ==
  /\ AtRow("sending")
  /\ store \in [Rows -> QueuedRows]
  /\ email = <<"a", "@", "b", ".", "c">> /\ templatePageId = "tpl"
  /\ validation = [valid |-> TRUE, reason |-> <<>>] /\ mxResult = "ok"
  /\ effects = {"mx", "template"}
  /\ blocks = SampleBlocks /\ title = SampleTitle /\ name = <<"Ann">>
  /\ rendered = "ok" /\ tpl = getTemplate(title, blocks)
  /\ subject = replaceName(tpl.subject, name)
  /\ htmlBody = [k \in 1..Len(tpl.html) |-> replaceName(tpl.html[k], name)]

NextUpdate == MarkSending \/ GetGraphToken \/ SendMail \/ MarkSent \/ CatchSend

SpecUpdate == InitUpdate /\ [][NextUpdate]_vars

\* ------------------------------------------------------------------ claims

\* The rows whose processRow call returned in this run.
Completed == {rows[k] : k \in 1..nDone}

\* C1: every error met while a row is processed, a failed write-back to the
\* row store included, is caught at the row boundary and the run goes on: a
\* run that listed n > 0 rows ends at its summary with all n rows processed.
C1_RowErrorsDoNotAbort ==
  (pc = "exit" /\ Len(rows) > 0) => (exitReason = "summary" /\ nDone = Len(rows))

\* C2: every row whose processRow call returned has its send-intent flag
\* cleared and its send-status Sent or Failed, so the filter of the next run
\* does not select it.
C2_CompletedRowNotPending ==
  \A r \in Completed :
     /\ store[r].send = FALSE
     /\ store[r].sendStatus \in {"Sent", "Failed"}
     /\ ~(store[r].send /\ store[r].sendStatus \in {"", RetrySentinel})

C2_Witness ==
  /\ pc = "next" /\ nDone = 2
  /\ store[rows[1]].sendStatus = "Sent" /\ store[rows[2]].sendStatus = "Failed"

\* C3: the exit code is 0 exactly when no row was eligible or every processed
\* row was sent, and 1 exactly when a row failed, a required secret was
\* missing or the initial listing failed; there is no other outcome.
C3_ExitCode ==
  pc = "exit" =>
     /\ exitCode \in {0, 1}
     /\ exitCode = 1 <=> (failedCount > 0 \/ Required \ env # {} \/ exitReason = "listfail")
     /\ exitCode = 0 <=> /\ Required \ env = {}
                         /\ exitReason # "listfail"
                         /\ (rows = <<>> \/ sentCount = Len(rows))

\* C4: at the summary of a run over n listed rows, sent + failed = n, every
\* row was counted once, and sent is the number of rows whose send succeeded.
C4_SummaryCounts ==
  (pc = "exit" /\ exitReason = "summary") =>
     /\ sentCount + failedCount = Len(rows)
     /\ nDone = Len(rows)
     /\ sentCount = nDelivered

\* C5: a run with a required secret missing, or whose initial listing failed,
\* ends with exit code 1 and has made no row update, MX lookup, template
\* fetch, token exchange or send request.
C5_AbortBeforeAnyRow ==
  (Required \ env # {} \/ exitReason = "listfail") =>
     /\ pc = "exit" /\ exitCode = 1
     /\ effects = {} /\ nDone = 0 /\ nDelivered = 0 /\ exchanges = 0

C5_Witness ==
  /\ pc = "exit" /\ exitCode = 1
  /\ "OUTLOOK_REFRESH_TOKEN" \notin env
  /\ \E r \in Rows : Pending(store[r])

\* C6: the listing returns a row if and only if, at the listing, its flag is
\* checked and its status is empty or the retry sentinel.
C6_ListedIffEligible ==
  pc \in {"row", "validate", "template", "sending", "token", "request", "sent", "catch", "next"}
     => {rows[k] : k \in 1..Len(rows)} = eligibleAtList

\* C7: a run that reaches its summary has processed every row that matched
\* the filter when the listing was made.
C7_AllEligibleProcessed ==
  (pc = "exit" /\ exitReason = "summary") => eligibleAtList \subseteq Completed

\* C8: when processRow returns after a successful send (valid address, linked
\* template rendered, send accepted, final write made), the row is Sent, its
\* timestamp is the instant of that write, its flag is cleared and its
\* validation-status is still the Passed value of the intermediate write.
C8_SentRow ==
  [][ (pc = "sent" /\ pc' = "next") =>
        /\ isValidFormat(email) /\ templatePageId # "" /\ rendered = "ok" /\ delivered
        /\ store'[rows[i]] = [send |-> FALSE, sendStatus |-> "Sent", sentAt |-> <<now>>,
                              validationStatus |-> <<"[v] ", "Passed">>] ]_vars

C8_Witness ==
  /\ pc = "next" /\ outcome = "sent" /\ delivered
  /\ store[rows[i]].sendStatus = "Sent" /\ store[rows[i]].sentAt = <<1>>

\* The validation-status a failed row must carry: the first cause that
\* applies, in the order email, template, validation, render, send.  p is
\* what precedes the validator's reason.
FailureStatus(p) ==
  IF email = <<>> THEN <<"No email address">>
  ELSE IF templatePageId = "" THEN <<"No template linked">>
  ELSE IF ~validation.valid THEN p \o validation.reason
  ELSE IF rendered = "failed" THEN <<"Template error: ">> \o err
  ELSE <<"Send error: ">> \o err

\* C9 as stated: a failed row is Failed with its flag cleared and carries the
\* status of its first cause; for a validation failure the status equals the
\* validator's reason.
C9_FailureStatusIsReason ==
  (pc = "next" /\ outcome = "failed") =>
     /\ store[rows[i]].sendStatus = "Failed" /\ store[rows[i]].send = FALSE
     /\ store[rows[i]].validationStatus = FailureStatus(<<>>)

\* C9 amended: the same, but for a validation failure the status is the
\* cross mark and a space followed by the validator's reason.
C9_FailureStatus ==
  (pc = "next" /\ outcome = "failed") =>
     /\ store[rows[i]].sendStatus = "Failed" /\ store[rows[i]].send = FALSE
     /\ store[rows[i]].validationStatus = FailureStatus(<<"[x] ">>)

C9_Witness ==
  /\ pc = "next" /\ outcome = "failed" /\ ~validation.valid
  /\ store[rows[i]].validationStatus = <<"[x] ", "No mail server found for ", "b", ".", "c">>

\* C10: a getGraphToken call made while the cached token is within its
\* window (now before expiry minus margin) returns the cached token and makes
\* no exchange; a call made with an empty or expired cache makes exactly one
\* exchange and, when it succeeds, caches the token it returns; so the
\* exchanges of a run are as many as its calls with an empty or expired cache.
C10_TokenReuse ==
  /\ [](exchanges = staleCalls)
  /\ [][ (pc = "token" /\ pc' # "token") =>
           IF cachedToken # 0 /\ now < tokenExpiresAt
           THEN /\ pc' = "request" /\ token' = cachedToken
                /\ cachedToken' = cachedToken /\ tokenExpiresAt' = tokenExpiresAt
                /\ exchanges' = exchanges
           ELSE /\ exchanges' = exchanges + 1
                /\ pc' = "request" => (token' = cachedToken' /\ cachedToken' # cachedToken) ]_vars

\* The second call of a run was served from the cache.
C10_Witness ==
  /\ pc = "request" /\ i = 2 /\ nDelivered = 1
  /\ exchanges = 1 /\ token = cachedToken /\ token # 0

\* C11: a successful exchange logs the rotation notice if and only if its
\* response carries a refresh token that differs from the one the exchange
\* sent, and the notice carries that value; the value is only logged, so
\* every exchange of a run sends the refresh token the run was supplied with.
C11_RotationNotice ==
  /\ [][ (pc = "token" /\ pc' = "request" /\ exchanges' = exchanges + 1) =>
           /\ notice' # <<>> <=> (issued' # "" /\ issued' # refreshUsed')
           /\ notice' # <<>> => notice'[Len(notice')] = issued' ]_vars
  /\ [](exchanges > 0 => refreshUsed = SuppliedRefreshToken)

\* The second exchange of a run, made with the supplied refresh token, was
\* answered with a rotated one and the notice was logged.
C11_Witness ==
  /\ pc = "request" /\ i = 2 /\ exchanges = 2
  /\ refreshUsed = SuppliedRefreshToken /\ issued = "rt1" /\ notice # <<>>

\* What the validator's pattern rejects, in the words of the claim.
HasWhitespace(e) == \E k \in 1..Len(e) : e[k] = " "
AtSigns(e)       == {k \in 1..Len(e) : e[k] = "@"}
\* The part of an address with one at sign that follows it.
AfterAt(e)       == LET a == CHOOSE k \in AtSigns(e) : TRUE IN SubSeq(e, a + 1, Len(e))
NoDotInDomain(e) == Cardinality(AtSigns(e)) = 1 /\ \A k \in 1..Len(AfterAt(e)) : AfterAt(e)[k] # "."

C13_MxDecides ==
  (pc # "validate" /\ isValidFormat(email)) =>
     /\ mxResult \in {"ok", "empty", "error"}
     /\ validation.valid <=> mxResult = "ok"
     /\ mxResult # "ok" =>
          validation = [valid |-> FALSE,
                        reason |-> <<"No mail server found for ">> \o AfterAt(email)]
     /\ err = <<>>

C13_Witness ==
  /\ pc = "next" /\ outcome = "failed" /\ mxResult = "error"
  /\ email = <<"a", "@", "a", ".", "a">>
  /\ validation.reason = <<"No mail server found for ", "a", ".", "a">>

\* The maximal runs of blocks of one type, as pairs of first and last position.
RunsOf(type) ==
  { ab \in (1..Len(blocks)) \X (1..Len(blocks)) :
      /\ ab[1] <= ab[2]
      /\ \A k \in ab[1]..ab[2] : blocks[k].type = type
      /\ (ab[1] = 1 \/ blocks[ab[1] - 1].type # type)
      /\ (ab[2] = Len(blocks) \/ blocks[ab[2] + 1].type # type) }

\* The list item of block k, and a container holding the items of a run.
Item(k) == <<"<li>">> \o blocks[k].rich_text \o <<"</li>">>
Container(open, close, ab) ==
  << <<open>> >> \o [k \in 1..(ab[2] - ab[1] + 1) |-> Item(ab[1] + k - 1)] \o << <<close>> >>

\* seg is a run of consecutive lines of h; the lines of h equal to line.
Occurs(seg, h)  == \E p \in 1..(Len(h) - Len(seg) + 1) : SubSeq(h, p, p + Len(seg) - 1) = seg
Count(line, h)  == Cardinality({p \in 1..Len(h) : h[p] = line})
\* The list containers open after the first p lines of h.
Depth(h, p) ==
  Cardinality({q \in 1..p : h[q] \in {<<"<ul>">>, <<"<ol>">>}})
    - Cardinality({q \in 1..p : h[q] \in {<<"</ul>">>, <<"</ol>">>}})
ListLine(l) == l[1] \in {"<ul>", "</ul>", "<ol>", "</ol>", "<li>"}

\* C14: in the rendered HTML each maximal run of bulleted items is one <ul>
\* holding the items of the run in order, each maximal run of numbered items
\* one <ol>; there are no other containers and no other items; the markup of
\* every other block lies outside the containers; at most one container is
\* open at any line and none at the end.
C14_ListGrouping ==
  rendered = "ok" =>
     LET h == tpl.html IN
     /\ \A ab \in RunsOf("bulleted_list_item") : Occurs(Container("<ul>", "</ul>", ab), h)
     /\ \A ab \in RunsOf("numbered_list_item") : Occurs(Container("<ol>", "</ol>", ab), h)
     /\ Count(<<"<ul>">>, h) = Cardinality(RunsOf("bulleted_list_item"))
     /\ Count(<<"<ol>">>, h) = Cardinality(RunsOf("numbered_list_item"))
     /\ Cardinality({p \in 1..Len(h) : h[p][1] = "<li>"})
          = Cardinality({k \in 1..Len(blocks) :
                           blocks[k].type \in {"bulleted_list_item", "numbered_list_item"}})
     /\ \A p \in 1..Len(h) : ~ListLine(h[p]) => Depth(h, p) = 0
     /\ \A p \in 0..Len(h) : Depth(h, p) \in {0, 1}
     /\ Depth(h, Len(h)) = 0

\* Two bulleted items, a paragraph, two numbered items.
C14_Witness ==
  /\ rendered = "ok" /\ Len(blocks) = 5
  /\ blocks[1].type = "bulleted_list_item" /\ blocks[4].type = "numbered_list_item"
  /\ tpl.html = << <<"<ul>">>, <<"<li>", "1", "</li>">>, <<"<li>", "2", "</li>">>, <<"</ul>">>,
                   <<"<p>", "3", "</p>">>,
                   <<"<ol>">>, <<"<li>", "4", "</li>">>, <<"<li>", "5", "</li>">>, <<"</ol>">> >>

\* A block for which the switch pushes nothing.
Silent(b) ==
  \/ b.type \notin {"paragraph", "heading_1", "heading_2", "heading_3", "bulleted_list_item",
                    "numbered_list_item", "to_do", "quote", "code", "divider", "image"}
  \/ b.type = "image" /\ b.url = ""
CloseOf(type) == IF type = "bulleted_list_item" THEN <<"</ul>">> ELSE <<"</ol>">>

\* C19: a block of an unknown type, or an image block without a URL, gives no
\* line of its own (the lines that are not list tags are as many as the other
\* blocks, and none carries its text), and the list open before it is closed:
\* the item of a list block right before it is followed by the closing tag.
C19_SilentBlockClosesList ==
  rendered = "ok" =>
     LET h == tpl.html IN
     /\ Cardinality({p \in 1..Len(h) : h[p][1] \notin {"<ul>", "</ul>", "<ol>", "</ol>"}})
          = Cardinality({k \in 1..Len(blocks) : ~Silent(blocks[k])})
     /\ \A k \in 1..Len(blocks) : Silent(blocks[k]) =>
          /\ \A p \in 1..Len(h) : \A q \in 1..Len(h[p]) : h[p][q] # ToString(k)
          /\ (k > 1 /\ blocks[k - 1].type \in {"bulleted_list_item", "numbered_list_item"})
               => Occurs(<<Item(k - 1), CloseOf(blocks[k - 1].type)>>, h)

\* Two bulleted items with a block of an unknown type between them.
C19_Witness ==
  /\ rendered = "ok" /\ Len(blocks) = 3 /\ blocks[2].type = "table"
  /\ tpl.html = << <<"<ul>">>, <<"<li>", "1", "</li>">>, <<"</ul>">>,
                   <<"<ul>">>, <<"<li>", "3", "</li>">>, <<"</ul>">> >>

\* text with every placeholder replaced by the fragments of n as they are.
Verbatim(text, n) ==
  LET F[k \in 0..Len(text)] ==
        IF k = 0 THEN <<>>
        ELSE F[k - 1] \o (IF text[k] \in Placeholders THEN n ELSE <<text[k]>>)
  IN  F[Len(text)]
NoPlaceholder(text) == \A k \in 1..Len(text) : text[k] \notin Placeholders

\* C15: after the substitution the subject and every line of the body are the
\* template's with each placeholder, in any letter case, replaced by the
\* recipient name exactly as it is, whatever the name; no placeholder is left
\* and the text outside the placeholders is unchanged.
C15_NameVerbatim ==
  rendered = "ok" =>
     /\ subject = Verbatim(tpl.subject, name)
     /\ Len(htmlBody) = Len(tpl.html)
     /\ \A k \in 1..Len(htmlBody) : htmlBody[k] = Verbatim(tpl.html[k], name)
     /\ NoPlaceholder(subject)
     /\ \A k \in 1..Len(htmlBody) : NoPlaceholder(htmlBody[k])

\* The properties of a row.
Fields == {"send", "sendStatus", "validationStatus", "sentAt"}
\* Of a step that writes to the store, the properties its update supplies:
\* the intermediate write, the write of a sent row, a failure write.
Supplied ==
  CASE pc = "sending" -> {"validationStatus", "sendStatus"}
    [] pc = "sent"    -> {"sendStatus", "sentAt", "send"}
    [] OTHER          -> {"validationStatus", "sendStatus", "send"}

\* C16: a write-back changes only the row being processed and, of that row,
\* only the properties its update supplies, which take the supplied values;
\* so a failure write leaves the sent-timestamp and the intermediate write
\* leaves the send-intent flag and the sent-timestamp as they were.
C16_PartialUpdate ==
  [][ /\ \A r \in Rows : \A f \in Fields :
           (r # rows[i] \/ f \notin Supplied) => store'[r][f] = store[r][f]
      /\ (pc = "sending" /\ pc' = "token") =>
           /\ store'[rows[i]].validationStatus = <<"[v] ", "Passed">>
           /\ store'[rows[i]].sendStatus = "Sending..."
      /\ (pc = "sent" /\ pc' = "next") =>
           /\ store'[rows[i]].sendStatus = "Sent" /\ store'[rows[i]].sentAt = <<now>>
           /\ store'[rows[i]].send = FALSE
      /\ (pc = "catch" /\ pc' = "next") =>
           /\ store'[rows[i]].sendStatus = "Failed" /\ store'[rows[i]].send = FALSE
           /\ store'[rows[i]].validationStatus = <<"Send error: ">> \o err ]_vars

\* A row queued for a retry failed again and still holds its old timestamp.
C16_Witness ==
  /\ pc = "next" /\ outcome = "failed"
  /\ store[rows[i]].sendStatus = "Failed" /\ store[rows[i]].sentAt = <<0>>
  /\ store[rows[i]].validationStatus = <<"Send error: ", "AADSTS70000">>

\* C17: a getGraphToken call hands out the cached token without an exchange
\* only when the clock is strictly before the token's expiry at the provider
\* minus the 60 second margin, whatever lifetime was reported; a call made
\* with a cached token at or after that instant makes an exchange and does
\* not hand out the cached token.
C17_CacheWindow ==
  [][ (pc = "token" /\ pc' # "token") =>
        /\ (pc' = "request" /\ exchanges' = exchanges) =>
              /\ cachedToken # 0 /\ token' = cachedToken
              /\ now < trueExpiry - Margin
        /\ (cachedToken # 0 /\ now >= trueExpiry - Margin) =>
              /\ exchanges' = exchanges + 1
              /\ pc' = "request" => token' # cachedToken ]_vars

\* The first row was sent with token 1; the call for the second row found it
\* past its window and exchanged again.
C17_Witness ==
  /\ pc = "request" /\ i = 2 /\ nDelivered = 1
  /\ exchanges = 2 /\ token = 2 /\ cachedToken = 2

\* C18: an exchange whose response has no access token makes getGraphToken
\* throw the provider's error description (a fixed message if there is none)
\* and leaves the cached token and its expiry as they were; the catch of the
\* send step then writes the row Failed with "Send error: <description>",
\* counts it, and the process has not exited; the next getGraphToken call of
\* the run makes a fresh exchange.
C18_FailedExchange ==
  /\ [][ (pc = "token" /\ pc' # "token" /\ exchangeFailed') =>
           /\ pc' = "catch"
           /\ err' \in {<<"AADSTS70000">>, <<"Token refresh failed">>}
           /\ cachedToken' = cachedToken /\ tokenExpiresAt' = tokenExpiresAt ]_vars
  /\ [][ (pc = "catch" /\ exchangeFailed /\ pc' = "next") =>
           /\ store'[rows[i]].sendStatus = "Failed"
           /\ store'[rows[i]].validationStatus = <<"Send error: ">> \o err
           /\ failedCount' = failedCount + 1
           /\ exitCode' = -1 ]_vars
  /\ [][ (pc = "token" /\ pc' # "token" /\ exchangeFailed) =>
           exchanges' = exchanges + 1 ]_vars

\* The exchange failed for the first row, which was written Failed; the run
\* went on and the call for the second row exchanged again, with success.
C18_Witness ==
  /\ pc = "request" /\ i = 2 /\ exchanges = 2 /\ token = 2 /\ failedCount = 1
  /\ store[rows[1]].sendStatus = "Failed"
  /\ store[rows[1]].validationStatus = <<"Send error: ", "AADSTS70000">>

\* The positions of processRow before it returns.
InRow == {"row", "validate", "template", "sending", "token", "request", "sent", "catch"}

\* C20: rows are taken one at a time in listing order: while row i is being
\* processed the rows before it have returned and i - 1 delays were awaited;
\* the loop moves to row i + 1 only after row i returned, with exactly one
\* delay, whether row i was sent or failed; a write-back changes only the row
\* being processed; at the summary of n rows n - 1 delays were awaited, none
\* after the last row.
C20_OneRowAtATime ==
  /\ [](pc \in InRow \cup {"fatal"} => (nDone = i - 1 /\ delays = i - 1))
  /\ [](pc = "next" => (nDone = i /\ delays = i - 1))
  /\ [](exitReason = "summary" => (nDone = Len(rows) /\ delays = Len(rows) - 1))
  /\ [][ (pc \in InRow \cup {"next", "fatal"} /\ i' # i) =>
           /\ pc = "next" /\ outcome \in {"sent", "failed"}
           /\ i' = i + 1 /\ pc' = "row" /\ delays' = delays + 1 ]_vars
  /\ [][ \A r \in Rows : store'[r] # store[r] => (pc \in InRow /\ r = rows[i]) ]_vars

\* The summary of a run of two rows, the first failed: one delay.
C20_Witness ==
  /\ pc = "exit" /\ exitReason = "summary" /\ Len(rows) = 2
  /\ delays = 1 /\ failedCount = 1 /\ sentCount = 1
  /\ store[rows[1]].sendStatus = "Failed" /\ store[rows[2]].sendStatus = "Sent"

\* C21: a token exchange or a send request is made for a row only after its
\* email and template reference were present, validation passed, the template
\* rendered and the write of "Passed" with "Sending..." was accepted; a row
\* that failed an earlier step has caused no exchange and no send request; a
\* row becomes Sent only from the Sending state.
C21_SendOnlyAfterSending ==
  /\ [][ (exchanges' > exchanges \/ sends' # sends) =>
           /\ pc \in {"token", "request"}
           /\ email # <<>> /\ templatePageId # ""
           /\ validation.valid /\ rendered = "ok"
           /\ store[rows[i]].sendStatus = "Sending..."
           /\ store[rows[i]].validationStatus = <<"[v] ", "Passed">>
           /\ \A r \in Rows : sends'[r] # sends[r] => r = rows[i] ]_vars
  /\ []((pc \in InRow \cup {"next", "fatal"}
          /\ (email = <<>> \/ templatePageId = "" \/ ~validation.valid \/ rendered # "ok"))
        => (token = 0 /\ ~delivered /\ pc \notin {"token", "request", "sent", "catch"}))
  /\ [][ \A r \in Rows :
           (store'[r].sendStatus = "Sent" /\ store[r].sendStatus # "Sent")
             => store[r].sendStatus = "Sending..." ]_vars

\* A row was sent: one exchange, one accepted send request, then the Sent write.
C21_Witness ==
  /\ pc = "next" /\ outcome = "sent" /\ exchanges = 1
  /\ sends[rows[i]] = [requests |-> 1, accepted |-> 1]
  /\ store[rows[i]].sendStatus = "Sent"

\* The rows the current run listed.
Listed == {rows[k] : k \in 1..Len(rows)}

\* C22: over successive runs no row receives a second send request: no step
\* writes the retry status, a listing never returns a row that is in the
\* Sending state or that has received a send request, and a listed row left in
\* the Sending state keeps its send flag.
C22_AtMostOneSend ==
  /\ [](\A r \in Rows : sends[r].requests <= 1)
  /\ [][ \A r \in Rows :
           store'[r].sendStatus = RetrySentinel => store[r].sendStatus = RetrySentinel ]_vars
  /\ [][ rows' # rows =>
           \A k \in 1..Len(rows') :
              /\ store[rows'[k]].sendStatus # "Sending..."
              /\ sends[rows'[k]].requests = 0 ]_vars
  /\ [](\A r \in Rows :
          (store[r].sendStatus = "Sending..." /\ (r \in Listed \/ sends[r].requests > 0))
            => store[r].send)

\* The second run has listed rows; a row the first run sent and left in the
\* Sending state (both final writes were rejected) is not among them.
C22_Witness ==
  /\ runs = 2 /\ pc = "row"
  /\ \E r \in Rows :
       /\ store[r].sendStatus = "Sending..." /\ store[r].send
       /\ sends[r] = [requests |-> 1, accepted |-> 1]
       /\ r \notin Listed

\* C23: when two invocations overlap, the mail API accepts at most one send
\* request for each row.
C23_NoDoubleSendOnOverlap == \A r \in Rows : sends[r].accepted <= 1

====
